---- MODULE Spec2Model ----
(***************************************************************************)
(* Model of the Home component of XlsxSender                               *)
(* (src/src/app/components/home/home.ts): scanning a source folder for     *)
(* .xlsx files, selecting, sending (copy + mark 'sent') and discarding     *)
(* (mark 'discarded'), with the status kept in a JSON sidecar file of the  *)
(* source folder.  Each async handler is cut at its await points.          *)
(***************************************************************************)
EXTENDS Integers, Sequences, FiniteSets, TLC

\* ------------------------------------------------------------------ bounds
MaxEnv == 1    \* number of changes made to the folders from outside

\* File.size and File.lastModified values the files take.
Sizes == {100, 200}
Times == {1, 2}

\* ------------------------------------------------------------ file system
\* Folders the directory picker can return.  A, B and C are source
\* folders, D is the mapped cloud folder picked as destination.
Folders == {"A", "B", "C"}
SrcDirs == {"A", "B"}
DstDirs == {"D"}

STATUS_FILENAME == "xlsx-sender-status.json"

\* Names of the direct entries used in the model.
Names == {"a.xlsx", "B.XLSX", "c.xlsx", "n.txt", "s.xlsx"}

\* The characters of each name (strings are opaque to TLC, so the name
\* tests below work on these sequences).
Chars(name) ==
    CASE name = "a.xlsx" -> <<"a", ".", "x", "l", "s", "x">>
      [] name = "B.XLSX" -> <<"B", ".", "X", "L", "S", "X">>
      [] name = "c.xlsx" -> <<"c", ".", "x", "l", "s", "x">>
      [] name = "n.txt"  -> <<"n", ".", "t", "x", "t">>
      [] name = "s.xlsx" -> <<"s", ".", "x", "l", "s", "x">>
      [] name = STATUS_FILENAME ->
           <<"x", "l", "s", "x", "-", "s", "e", "n", "d", "e", "r", "-",
             "s", "t", "a", "t", "u", "s", ".", "j", "s", "o", "n">>

\* String.prototype.toLowerCase, character by character.
LowerChar(c) ==
    CASE c = "B" -> "b"
      [] c = "X" -> "x"
      [] c = "L" -> "l"
      [] c = "S" -> "s"
      [] OTHER   -> c

toLowerCase(s) == [i \in 1..Len(s) |-> LowerChar(s[i])]

\* String.prototype.endsWith.
endsWith(s, suffix) ==
    /\ Len(s) >= Len(suffix)
    /\ SubSeq(s, Len(s) - Len(suffix) + 1, Len(s)) = suffix

DotXlsx == <<".", "x", "l", "s", "x">>

\* What each folder holds (fixed): kind of the entry and, for files, what
\* getLastSavedByFromXlsx finds in it.  "none" = no such entry.
Kind(dir, name) ==
    CASE dir = "A" /\ name \in {"a.xlsx", "B.XLSX", "n.txt"} -> "file"
      [] dir = "A" /\ name = "s.xlsx"                        -> "directory"
      [] dir = "B" /\ name = "n.txt"                         -> "file"
      [] dir = "C" /\ name \in {"a.xlsx", "B.XLSX", "c.xlsx"} -> "file"
      [] OTHER                                               -> "none"

\* Content of a file as far as the metadata extraction is concerned:
\* "author" a zip with docProps/core.xml and a cp:lastModifiedBy element,
\* "nocore" a zip without docProps/core.xml, "notzip" not a zip archive.
Zip(dir, name) ==
    CASE dir = "A" /\ name = "a.xlsx" -> "author"
      [] dir = "A" /\ name = "B.XLSX" -> "notzip"
      [] OTHER                        -> "nocore"

\* The files whose size and modification time the model varies.
FileIds == {<<d, n>> \in Folders \X Names :
              Kind(d, n) = "file" /\ endsWith(toLowerCase(Chars(n)), DotXlsx)}

\* File.size and File.lastModified of each file when the component is
\* created.
InitialMeta(id) ==
    [size  |-> 100,
     mtime |-> CASE id = <<"A", "a.xlsx">> -> 1
                 [] id = <<"A", "B.XLSX">> -> 2
                 [] id = <<"C", "a.xlsx">> -> 2
                 [] id = <<"C", "B.XLSX">> -> 3
                 [] id = <<"C", "c.xlsx">> -> 1]

NoError == "null"

VARIABLES
    meta,        \* [FileIds -> [size, mtime]]: File.size, File.lastModified
    sidecar,     \* [Folders -> content of xlsx-sender-status.json]
    dest,        \* [DstDirs -> [Names -> "absent" | "present"]]
    envCount,    \* changes made from outside so far
    files,       \* this.files(): sequence of XlsxFile
    selected,    \* this._selected(): set of names
    errorMsg,    \* this.errorMsg()
    scanning,    \* this.scanning()
    pickedFolderName,
    originDirHandle,
    pcPick, pick,        \* pickDirectory: position and locals
    pcSend, send,        \* sendFiles: position and locals
    pcDiscard, discard,  \* discardFiles: position and locals
    outcome,     \* what the handler that has just returned did
    discards,    \* <<handle, size and time, k>>: the k-th Discard of the file
                 \* of that size and time has saved the status (k = 1, 2)
    store,       \* the last calls of saveStatusMapToFolder and
                 \* loadStatusMapFromFolder made on their own
    scans        \* the lists of the last two completed scans, while the
                 \* folders have not changed since

vars == <<meta, sidecar, dest, envCount, files, selected, errorMsg, scanning,
          pickedFolderName, originDirHandle, pcPick, pick, pcSend, send,
          pcDiscard, discard, outcome, discards, store, scans>>

\* ------------------------------------------------------------ status keys
\* makeStatusKey: `${name}|${size}|${lastModified}`.
makeStatusKey(name, size, lastModified) ==
    name \o "|" \o ToString(size) \o "|" \o ToString(lastModified)

AllKeys ==
    {makeStatusKey(id[2], s, t) : id \in FileIds, s \in Sizes, t \in Times}
        \cup {makeStatusKey(id[2], InitialMeta(id).size, InitialMeta(id).mtime) :
                 id \in FileIds}

\* ------------------------------------------------------- JSON and sidecar
\* A sidecar content is [kind, m]: "absent" (no file), "unreadable" (the
\* file cannot be opened or read), or a text: "garbage" (not valid JSON,
\* the empty text included), "null", "array", "scalar" (a number, a string
\* or a boolean), "object" (a JSON object, m the set of its members, each
\* a <<name, value>> pair).
\* A JavaScript value is [t, m]: null, an array (m its non-index
\* properties), a scalar, or an object (m its properties).
EmptyMap == [k \in {} |-> "sent"]

Content(kind) == [kind |-> kind, m |-> {}]
EmptyObject   == [t |-> "object", m |-> EmptyMap]

\* JSON.parse; t = "throw" is a SyntaxError.  An object gets a property
\* for each member name of the text.
JSONParse(text) ==
    CASE text.kind = "garbage" -> [t |-> "throw", m |-> EmptyMap]
      [] text.kind = "null"    -> [t |-> "null", m |-> EmptyMap]
      [] text.kind = "array"   -> [t |-> "array", m |-> EmptyMap]
      [] text.kind = "scalar"  -> [t |-> "scalar", m |-> EmptyMap]
      [] text.kind = "object"  ->
           [t |-> "object",
            m |-> [k \in {p[1] : p \in text.m} |->
                     (CHOOSE p \in text.m : p[1] = k)[2]]]

\* JSON.stringify(value, null, 2): an object is written as one member for
\* each of its properties; an array is written with its elements only,
\* its other properties are dropped.
JSONStringify(value) ==
    CASE value.t = "object" ->
           [kind |-> "object",
            m |-> {<<k, value.m[k]>> : k \in DOMAIN value.m}]
      [] value.t = "array"  -> Content("array")
      [] value.t = "scalar" -> Content("scalar")
      [] value.t = "null"   -> Content("null")

\* loadStatusMapFromFolder: whatever JSON.parse returns, {} on any throw.
loadStatusMapFromFolder(content) ==
    IF content.kind \in {"absent", "unreadable"}
    THEN EmptyObject
    ELSE LET v == JSONParse(content)
         IN  IF v.t = "throw" THEN EmptyObject ELSE v

\* value[key] as an expression: a TypeError on null.
ReadThrows(value) == value.t = "null"

Get(value, key) ==
    IF value.t \in {"object", "array"} /\ key \in DOMAIN value.m
    THEN value.m[key]
    ELSE "undefined"

\* value[key] = status: a TypeError on null and (strict mode) on a scalar.
WriteThrows(value) == value.t \in {"null", "scalar"}

PutAlone(value, key, status) ==
    [value EXCEPT !.m = [k \in {key} |-> status]]

Put(value, key, status) ==
    [value EXCEPT !.m = [k \in DOMAIN value.m \cup {key} |->
                            IF k = key THEN status ELSE value.m[k]]]

\* saveStatusMapToFolder: "ok" writes the text and closes; "fail" is a
\* throw of getFileHandle, createWritable, write or close, after which the
\* file reads as before (a file that getFileHandle({create: true}) has
\* just created is empty and reads as no file does: as an empty map).
SaveOutcomes == {"ok", "fail"}

saveStatusMapMerging(content, map, how) ==
    CASE how = "ok"   -> IF content.kind = "object"
                         THEN [kind |-> "object",
                               m |-> content.m \cup JSONStringify(map).m]
                         ELSE JSONStringify(map)
      [] how = "fail" -> content

saveStatusMapToFolder(content, map, how) ==
    CASE how = "ok"   -> JSONStringify(map)
      [] how = "fail" -> content

\* ------------------------------------------------------------------- scan
\* getLastSavedByFromXlsx on a file of the given content.
getLastSavedByFromXlsx(zip) ==
    CASE zip = "author" -> "ana"
      [] zip = "nocore" -> "undefined"
      [] zip = "notzip" -> "undefined"

\* The direct entries of a folder, the sidecar included when it exists.
EntryNames(dir, side) ==
    {n \in Names : Kind(dir, n) # "none"}
        \cup (IF side[dir].kind = "absent" THEN {} ELSE {STATUS_FILENAME})

EntryKind(dir, name) ==
    IF name = STATUS_FILENAME THEN "file" ELSE Kind(dir, name)

RECURSIVE Perms(_)
Perms(S) ==
    IF S = {} THEN {<<>>}
    ELSE UNION {{<<x>> \o p : p \in Perms(S \ {x})} : x \in S}

\* The orders in which entries() may yield the entries of a folder: every
\* order of the names ending in .xlsx, the other names before or after
\* them (the order entries() follows is not specified).
EntryOrders(dir, side) ==
    LET all    == EntryNames(dir, side)
        xlsx   == {n \in all : endsWith(toLowerCase(Chars(n)), DotXlsx)}
        others == CHOOSE p \in Perms(all \ xlsx) : TRUE
    IN  {others \o p : p \in Perms(xlsx)} \cup {p \o others : p \in Perms(xlsx)}

\* handle.kind === 'file' && name.toLowerCase().endsWith('.xlsx')
IsCandidateCaseSensitive(dir, name) ==
    /\ EntryKind(dir, name) = "file"
    /\ endsWith(Chars(name), DotXlsx)

IsCandidate(dir, name) ==
    /\ EntryKind(dir, name) = "file"
    /\ endsWith(toLowerCase(Chars(name)), DotXlsx)

\* statusMap[key] === 'sent' || statusMap[key] === 'discarded'
IsHandledSentOnly(statusMap, key) ==
    Get(statusMap, key) = "sent"

IsHandled(statusMap, key) ==
    Get(statusMap, key) = "sent" \/ Get(statusMap, key) = "discarded"

XlsxFile(dir, name, m) ==
    [name         |-> name,
     size         |-> m[<<dir, name>>].size,
     lastModified |-> m[<<dir, name>>].mtime,
     lastSavedBy  |-> getLastSavedByFromXlsx(Zip(dir, name)),
     handle       |-> <<dir, name>>]

\* The for-await loop of pickDirectory over the entries in the order the
\* folder yields them: [threw, results].
RECURSIVE ScanLoop(_, _, _, _, _, _)
ScanLoop(dir, statusMap, order, m, i, acc) ==
    IF i > Len(order) THEN [threw |-> FALSE, results |-> acc]
    ELSE LET name == order[i]
         IN  IF ~IsCandidate(dir, name)
             THEN ScanLoop(dir, statusMap, order, m, i + 1, acc)
             ELSE IF ReadThrows(statusMap)
             THEN [threw |-> TRUE, results |-> acc]
             ELSE IF IsHandled(statusMap,
                               makeStatusKey(name, m[<<dir, name>>].size,
                                             m[<<dir, name>>].mtime))
             THEN ScanLoop(dir, statusMap, order, m, i + 1, acc)
             ELSE ScanLoop(dir, statusMap, order, m, i + 1,
                           Append(acc, XlsxFile(dir, name, m)))

\* results.sort((b, a) => a.lastModified.getTime() - b.lastModified.getTime())
\* Array.prototype.sort is stable.
RECURSIVE InsertByDateAscending(_, _)
InsertByDateAscending(sorted, e) ==
    IF sorted = <<>> THEN <<e>>
    ELSE IF Head(sorted).lastModified <= e.lastModified
         THEN <<Head(sorted)>> \o InsertByDateAscending(Tail(sorted), e)
         ELSE <<e>> \o sorted

RECURSIVE InsertByDate(_, _)
InsertByDate(sorted, e) ==
    IF sorted = <<>> THEN <<e>>
    ELSE IF Head(sorted).lastModified >= e.lastModified
         THEN <<Head(sorted)>> \o InsertByDate(Tail(sorted), e)
         ELSE <<e>> \o sorted

SortNone(s) == s

RECURSIVE SortByDateDesc(_)
SortByDateDesc(s) ==
    IF s = <<>> THEN <<>>
    ELSE InsertByDate(SortByDateDesc(SubSeq(s, 1, Len(s) - 1)), s[Len(s)])

RECURSIVE FilterNamesSelected(_, _, _)
FilterNamesSelected(list, names, keep) ==
    IF list = <<>> THEN <<>>
    ELSE LET rest == FilterNamesSelected(Tail(list), names, keep)
         IN  IF Head(list).name \in names
             THEN <<Head(list)>> \o rest
             ELSE rest

\* Array.prototype.filter.
RECURSIVE FilterNames(_, _, _)
FilterNames(list, names, keep) ==
    IF list = <<>> THEN <<>>
    ELSE LET rest == FilterNames(Tail(list), names, keep)
         IN  IF (Head(list).name \in names) = keep
             THEN <<Head(list)>> \o rest
             ELSE rest

\* ------------------------------------------------------------------ state
NoDir == "null"

\* The state a handler is called in, kept to state what it changed.
Snap == [files |-> files, selected |-> selected, sidecar |-> sidecar,
         dest |-> dest, errorMsg |-> errorMsg]

Snap0 == [files |-> <<>>, selected |-> {},
          sidecar |-> [d \in Folders |-> Content("absent")],
          dest |-> [d \in DstDirs |-> [n \in Names |-> "absent"]],
          errorMsg |-> NoError]

PickLocals0 == [dir |-> NoDir, statusMap |-> EmptyObject, pre |-> Snap0]

SendLocals0 == [selectedNames |-> {}, selected |-> <<>>, destDir |-> NoDir,
                perm |-> "none", ok |-> 0, fail |-> 0, i |-> 1,
                dir |-> NoDir, map |-> EmptyObject, log |-> <<>>,
                pre |-> Snap0]

DiscardLocals0 == [selectedNames |-> {}, selected |-> <<>>, dir |-> NoDir,
                   map |-> EmptyObject, pre |-> Snap0]

\* outcome is set by the step that ends a handler and cleared by every
\* other step: op says how the handler ended, pre is the state it was
\* called in, selected the entries it worked on, dir the folder whose
\* sidecar it saved, perm the answer to requestPermission, saves the number
\* of saveStatusMapToFolder calls, ok/fail/log the copy loop's counters
\* and the copies it attempted.
NoOutcome == [op |-> "none", pre |-> Snap0, selected |-> <<>>, dir |-> NoDir,
              perm |-> "none", saves |-> 0, ok |-> 0, fail |-> 0,
              log |-> <<>>]

\* store: op says what was called last ("saved", "save_failed", "loaded",
\* or "saved_loaded": a load that follows a successful save of the same
\* folder), dir on which folder, m the map given to the save, prior what
\* the sidecar held before the save, result what the load returned.
Store0 == [op |-> "none", dir |-> NoDir, m |-> EmptyObject,
           prior |-> Content("absent"), result |-> EmptyObject]

\* scans: last is the folder and the list of the last completed scan, prev
\* those of the completed scan before it; both are forgotten when a file
\* is rewritten or a status is saved.
NoScan == [dir |-> NoDir, files |-> <<>>]

Scans0 == [prev |-> NoScan, last |-> NoScan]

\* What the sidecar of a folder holds when the component is created: no
\* file, or a file left there by something else than this component.
SidecarKinds0 == {"absent", "unreadable", "garbage", "null", "array", "scalar"}

Init ==
    /\ meta = [id \in FileIds |-> InitialMeta(id)]
    /\ sidecar \in [Folders -> {Content(k) : k \in SidecarKinds0}]
    /\ sidecar["B"] = Content("absent")
    /\ sidecar["C"] = Content("absent")
    /\ dest = [d \in DstDirs |-> [n \in Names |-> "absent"]]
    /\ envCount = 0
    /\ files = <<>>
    /\ selected = {}
    /\ errorMsg = NoError
    /\ scanning = FALSE
    /\ pickedFolderName = NoDir
    /\ originDirHandle = NoDir
    /\ pcPick = "idle" /\ pick = PickLocals0
    /\ pcSend = "idle" /\ send = SendLocals0
    /\ pcDiscard = "idle" /\ discard = DiscardLocals0
    /\ outcome = NoOutcome
    /\ discards = {}
    /\ store = Store0
    /\ scans = Scans0

\* No handler is between its call and its return.
Idle == pcPick = "idle" /\ pcSend = "idle" /\ pcDiscard = "idle"

\* ------------------------------------------------------------- selection
\* toggleOne(name, checked), called from a row of the table.
toggleOne(name, checked) ==
    /\ selected' = IF checked THEN selected \cup {name} ELSE selected \ {name}
    /\ outcome' = NoOutcome
    /\ UNCHANGED <<meta, sidecar, dest, envCount, files, errorMsg, scanning,
                   pickedFolderName, originDirHandle, pcPick, pick, pcSend,
                   send, pcDiscard, discard, discards, store, scans>>

selectAll ==
    /\ selected' = {files[i].name : i \in 1..Len(files)}
    /\ outcome' = NoOutcome
    /\ UNCHANGED <<meta, sidecar, dest, envCount, files, errorMsg, scanning,
                   pickedFolderName, originDirHandle, pcPick, pick, pcSend,
                   send, pcDiscard, discard, discards, store, scans>>

clearSelection ==
    /\ selected' = {}
    /\ outcome' = NoOutcome
    /\ UNCHANGED <<meta, sidecar, dest, envCount, files, errorMsg, scanning,
                   pickedFolderName, originDirHandle, pcPick, pick, pcSend,
                   send, pcDiscard, discard, discards, store, scans>>

\* ---------------------------------------------------------- pickDirectory
\* Lines 114-120: the resets, then the await of showDirectoryPicker().
\* pre records the state at the call until the picker answers.
pickDirectory_CallKeepingSelection ==
    /\ pcPick = "idle"
    /\ errorMsg' = NoError
    /\ files' = <<>>
    /\ pickedFolderName' = NoDir
    /\ pick' = [PickLocals0 EXCEPT !.pre = Snap]
    /\ pcPick' = "picker"
    /\ outcome' = NoOutcome
    /\ UNCHANGED <<meta, sidecar, dest, envCount, selected, scanning,
                   originDirHandle, pcSend, send, pcDiscard, discard,
                   discards, store, scans>>

pickDirectory_Call ==
    /\ pcPick = "idle"
    /\ errorMsg' = NoError
    /\ files' = <<>>
    /\ pickedFolderName' = NoDir
    /\ selected' = {}
    /\ pick' = [PickLocals0 EXCEPT !.pre = Snap]
    /\ pcPick' = "picker"
    /\ outcome' = NoOutcome
    /\ UNCHANGED <<meta, sidecar, dest, envCount, scanning, originDirHandle,
                   pcSend, send, pcDiscard, discard, discards, store, scans>>

\* Lines 121-125: the picker resolves with a folder.
pickDirectory_Picked(dir) ==
    /\ pcPick = "picker"
    /\ originDirHandle' = dir
    /\ pickedFolderName' = dir
    /\ scanning' = TRUE
    /\ pick' = [pick EXCEPT !.dir = dir, !.pre = Snap0]
    /\ pcPick' = "load"
    /\ outcome' = NoOutcome
    /\ UNCHANGED <<meta, sidecar, dest, envCount, files, selected, errorMsg,
                   pcSend, send, pcDiscard, discard, discards, store, scans>>

\* Lines 155-161: the picker rejects; only an AbortError is silent.
PickerErrors == {"AbortError", "SecurityError"}

pickDirectory_Rejected(err) ==
    /\ pcPick = "picker"
    /\ errorMsg' = IF err # "AbortError" THEN err ELSE errorMsg
    /\ scanning' = FALSE
    /\ pcPick' = "idle"
    /\ pick' = PickLocals0
    /\ outcome' = [NoOutcome EXCEPT
                     !.op = IF err = "AbortError" THEN "scan_abort"
                                                  ELSE "scan_error",
                     !.pre = pick.pre]
    /\ UNCHANGED <<meta, sidecar, dest, envCount, files, selected,
                   pickedFolderName, originDirHandle, pcSend, send,
                   pcDiscard, discard, discards, store, scans>>

\* Line 125: loadStatusMapFromFolder(dirHandle) resolves.
pickDirectory_Load ==
    /\ pcPick = "load"
    /\ pick' = [pick EXCEPT
                  !.statusMap = loadStatusMapFromFolder(sidecar[pick.dir])]
    /\ pcPick' = "entries"
    /\ outcome' = NoOutcome
    /\ UNCHANGED <<meta, sidecar, dest, envCount, files, selected, errorMsg,
                   scanning, pickedFolderName, originDirHandle, pcSend, send,
                   pcDiscard, discard, discards, store, scans>>

\* Lines 126-161: the loop over the entries, in the order the folder yields
\* them, the sort, and the end of the handler.  A TypeError thrown by
\* statusMap[key] is caught at line 155.
pickDirectory_Entries(order) ==
    /\ pcPick = "entries"
    /\ LET r == ScanLoop(pick.dir, pick.statusMap, order, meta, 1, <<>>)
       IN  IF r.threw
           THEN /\ errorMsg' = "TypeError"
                /\ outcome' = [NoOutcome EXCEPT !.op = "scan_threw",
                                 !.dir = pick.dir]
                /\ UNCHANGED <<files, selected>>
           ELSE /\ files' = SortByDateDesc(r.results)
                /\ selected' = {}
                /\ outcome' = [NoOutcome EXCEPT !.op = "scan_ok",
                                 !.dir = pick.dir]
                /\ UNCHANGED errorMsg
    /\ scanning' = FALSE
    /\ pcPick' = "idle"
    /\ pick' = PickLocals0
    /\ UNCHANGED <<meta, sidecar, dest, envCount, pickedFolderName,
                   originDirHandle, pcSend, send, pcDiscard, discard, discards, store>>

\* -------------------------------------------------------------- sendFiles
\* copyFileToDir, by how far it gets: "ok" writes the content and closes;
\* "open" is a throw of getFileHandle (no file is created); "write" is a
\* throw after getFileHandle({create: true}), which has created the file
\* when there was none.  The destination records which names exist.
CopyOutcomes == {"ok", "open", "write"}

copyFileToDir(state, how) ==
    CASE how = "ok"    -> "present"
      [] how = "open"  -> state
      [] how = "write" -> "present"

\* perm === 'denied'
PermissionNeverDenied(perm) == FALSE

PermissionDenied(perm) == perm = "denied"

Permissions == {"granted", "denied", "prompt"}

\* Lines 229-236: the try/catch inside the loop counts and goes on.
NextIndexBreak(i, how, n) == IF how = "ok" THEN i + 1 ELSE n + 1

NextIndex(i, how, n) == i + 1

\* Lines 247-251 and 289-293: map[key] = status for every selected item,
\* the key made from the file as it is now (item.handle.getFile()).
RECURSIVE MarkAll(_, _, _, _)
MarkAll(map, items, status, m) ==
    IF items = <<>> THEN map
    ELSE LET item == Head(items)
             key  == makeStatusKey(item.name, m[item.handle].size,
                                   m[item.handle].mtime)
         IN  MarkAll(Put(map, key, status), Tail(items), status, m)

\* Lines 204-217: the selection is read, then showDirectoryPicker() awaited.
sendFiles_Call ==
    /\ pcSend = "idle"
    /\ selected # {}
    /\ FilterNames(files, selected, TRUE) # <<>>
    /\ send' = [SendLocals0 EXCEPT
                  !.selectedNames = selected,
                  !.selected = FilterNames(files, selected, TRUE),
                  !.pre = Snap]
    /\ pcSend' = "picker"
    /\ outcome' = NoOutcome
    /\ UNCHANGED <<meta, sidecar, dest, envCount, files, selected, errorMsg,
                   scanning, pickedFolderName, originDirHandle, pcPick, pick,
                   pcDiscard, discard, discards, store, scans>>

\* Line 217 resolves; requestPermission is awaited.
sendFiles_Picked(dir) ==
    /\ pcSend = "picker"
    /\ send' = [send EXCEPT !.destDir = dir]
    /\ pcSend' = "perm"
    /\ outcome' = NoOutcome
    /\ UNCHANGED <<meta, sidecar, dest, envCount, files, selected, errorMsg,
                   scanning, pickedFolderName, originDirHandle, pcPick, pick,
                   pcDiscard, discard, discards, store, scans>>

\* Line 217 rejects: lines 259-265.
sendFiles_RejectedClearing(err) ==
    /\ pcSend = "picker"
    /\ pcSend' = "idle"
    /\ send' = SendLocals0
    /\ selected' = {}
    /\ outcome' = [NoOutcome EXCEPT
                     !.op = IF err = "AbortError" THEN "send_cancelled"
                                                  ELSE "send_error",
                     !.pre = send.pre, !.selected = send.selected,
                     !.log = send.log]
    /\ UNCHANGED <<meta, sidecar, dest, envCount, files, errorMsg,
                   scanning, pickedFolderName, originDirHandle, pcPick, pick,
                   pcDiscard, discard, discards, store, scans>>

sendFiles_Rejected(err) ==
    /\ pcSend = "picker"
    /\ pcSend' = "idle"
    /\ send' = SendLocals0
    /\ outcome' = [NoOutcome EXCEPT
                     !.op = IF err = "AbortError" THEN "send_cancelled"
                                                  ELSE "send_error",
                     !.pre = send.pre, !.selected = send.selected,
                     !.log = send.log]
    /\ UNCHANGED <<meta, sidecar, dest, envCount, files, selected, errorMsg,
                   scanning, pickedFolderName, originDirHandle, pcPick, pick,
                   pcDiscard, discard, discards, store, scans>>

\* Lines 221-227: the permission answer.
sendFiles_Permission(perm) ==
    /\ pcSend = "perm"
    /\ IF PermissionDenied(perm)
       THEN /\ pcSend' = "idle"
            /\ send' = SendLocals0
            /\ outcome' = [NoOutcome EXCEPT !.op = "send_denied",
                             !.pre = send.pre, !.selected = send.selected,
                             !.perm = perm, !.log = send.log]
       ELSE /\ pcSend' = "copy"
            /\ send' = [send EXCEPT !.perm = perm]
            /\ outcome' = NoOutcome
    /\ UNCHANGED <<meta, sidecar, dest, envCount, files, selected, errorMsg,
                   scanning, pickedFolderName, originDirHandle, pcPick, pick,
                   pcDiscard, discard, discards, store, scans>>

\* Lines 228-237: one turn of the copy loop; log records the attempt.
sendFiles_Copy(how) ==
    /\ pcSend = "copy"
    /\ LET item == send.selected[send.i]
           next == NextIndex(send.i, how, Len(send.selected))
       IN  /\ dest' = [dest EXCEPT ![send.destDir][item.name] =
                          copyFileToDir(@, how)]
           /\ send' = [send EXCEPT
                         !.ok   = IF how = "ok" THEN @ + 1 ELSE @,
                         !.fail = IF how = "ok" THEN @ ELSE @ + 1,
                         !.i    = next,
                         !.log  = Append(@, <<item.name, how>>)]
           /\ pcSend' = IF next > Len(send.selected) THEN "load" ELSE "copy"
    /\ outcome' = NoOutcome
    /\ UNCHANGED <<meta, sidecar, envCount, files, selected, errorMsg,
                   scanning, pickedFolderName, originDirHandle, pcPick, pick,
                   pcDiscard, discard, discards, store, scans>>

\* Lines 243-246: the status map of the origin folder is loaded (without
\* an origin folder, lines 255-257 follow at once).
sendFiles_Load ==
    /\ pcSend = "load"
    /\ IF originDirHandle = NoDir
       THEN /\ files' = FilterNames(files, send.selectedNames, FALSE)
            /\ selected' = {}
            /\ pcSend' = "idle"
            /\ send' = SendLocals0
            /\ outcome' = [NoOutcome EXCEPT !.op = "send_done",
                             !.pre = send.pre, !.selected = send.selected,
                             !.perm = send.perm,
                             !.ok = send.ok, !.fail = send.fail,
                             !.log = send.log]
       ELSE /\ send' = [send EXCEPT
                          !.dir = originDirHandle,
                          !.map = loadStatusMapFromFolder(
                                      sidecar[originDirHandle])]
            /\ pcSend' = "mark"
            /\ outcome' = NoOutcome
            /\ UNCHANGED <<files, selected>>
    /\ UNCHANGED <<meta, sidecar, dest, envCount, errorMsg, scanning,
                   pickedFolderName, originDirHandle, pcPick, pick,
                   pcDiscard, discard, discards, store, scans>>

\* Lines 247-265: the marks, the save into the folder originDirHandle
\* names now, then the list and the selection.  A throw (a TypeError of
\* map[key] = 'sent', a failed save) goes to the catch of line 259.
sendFiles_MarkSave(how) ==
    /\ pcSend = "mark"
    /\ IF WriteThrows(send.map)
       THEN /\ outcome' = [NoOutcome EXCEPT !.op = "send_threw",
                             !.pre = send.pre, !.selected = send.selected,
                             !.dir = originDirHandle,
                             !.perm = send.perm,
                             !.ok = send.ok, !.fail = send.fail,
                             !.log = send.log]
            /\ UNCHANGED <<sidecar, files, selected>>
       ELSE /\ sidecar' = [sidecar EXCEPT ![originDirHandle] =
                             saveStatusMapToFolder(@,
                                 MarkAll(send.map, send.selected, "sent", meta),
                                 how)]
            /\ outcome' = [NoOutcome EXCEPT
                             !.op = IF how = "ok" THEN "send_done"
                                                  ELSE "send_save_failed",
                             !.pre = send.pre, !.selected = send.selected,
                             !.dir = originDirHandle, !.saves = 1,
                             !.perm = send.perm,
                             !.ok = send.ok, !.fail = send.fail,
                             !.log = send.log]
            /\ IF how = "ok"
               THEN /\ files' = FilterNames(files, send.selectedNames, FALSE)
                    /\ selected' = {}
               ELSE UNCHANGED <<files, selected>>
    /\ pcSend' = "idle"
    /\ send' = SendLocals0
    /\ UNCHANGED <<meta, dest, envCount, errorMsg, scanning,
                   pickedFolderName, originDirHandle, pcPick, pick,
                   pcDiscard, discard, discards, store>>

\* ----------------------------------------------------------- discardFiles
\* Lines 271-288: the selection is read and loadStatusMapFromFolder is
\* called on the origin folder (without one, lines 297-299 follow at once).
discardFiles_Call ==
    /\ pcDiscard = "idle"
    /\ selected # {}
    /\ FilterNames(files, selected, TRUE) # <<>>
    /\ IF originDirHandle = NoDir
       THEN /\ files' = FilterNames(files, selected, FALSE)
            /\ selected' = {}
            /\ pcDiscard' = "idle"
            /\ discard' = DiscardLocals0
            /\ outcome' = [NoOutcome EXCEPT !.op = "discard_done",
                             !.pre = Snap,
                             !.selected = FilterNames(files, selected, TRUE)]
       ELSE /\ discard' = [DiscardLocals0 EXCEPT
                             !.selectedNames = selected,
                             !.selected = FilterNames(files, selected, TRUE),
                             !.dir = originDirHandle,
                             !.pre = Snap]
            /\ pcDiscard' = "load"
            /\ outcome' = NoOutcome
            /\ UNCHANGED <<files, selected>>
    /\ UNCHANGED <<meta, sidecar, dest, envCount, errorMsg, scanning,
                   pickedFolderName, originDirHandle, pcPick, pick,
                   pcSend, send, discards, store, scans>>

\* Line 288 resolves.
discardFiles_Load ==
    /\ pcDiscard = "load"
    /\ discard' = [discard EXCEPT
                     !.map = loadStatusMapFromFolder(sidecar[discard.dir])]
    /\ pcDiscard' = "mark"
    /\ outcome' = NoOutcome
    /\ UNCHANGED <<meta, sidecar, dest, envCount, files, selected, errorMsg,
                   scanning, pickedFolderName, originDirHandle, pcPick, pick,
                   pcSend, send, discards, store, scans>>

\* Lines 289-302: the marks, the save into the folder originDirHandle
\* names now, then the list and the selection; a throw goes to line 300.
discardFiles_MarkSave(how) ==
    /\ pcDiscard = "mark"
    /\ IF WriteThrows(discard.map)
       THEN /\ outcome' = [NoOutcome EXCEPT !.op = "discard_threw",
                             !.pre = discard.pre,
                             !.selected = discard.selected,
                             !.dir = originDirHandle]
            /\ UNCHANGED <<sidecar, files, selected>>
       ELSE /\ sidecar' = [sidecar EXCEPT ![originDirHandle] =
                             saveStatusMapToFolder(@,
                                 MarkAll(discard.map, discard.selected,
                                         "discarded", meta),
                                 how)]
            /\ outcome' = [NoOutcome EXCEPT
                             !.op = IF how = "ok" THEN "discard_done"
                                                  ELSE "discard_save_failed",
                             !.pre = discard.pre,
                             !.selected = discard.selected,
                             !.dir = originDirHandle, !.saves = 1]
            /\ IF how = "ok"
               THEN /\ files' = FilterNames(files, discard.selectedNames, FALSE)
                    /\ selected' = {}
               ELSE UNCHANGED <<files, selected>>
    /\ pcDiscard' = "idle"
    /\ discard' = DiscardLocals0
    /\ UNCHANGED <<meta, dest, envCount, errorMsg, scanning,
                   pickedFolderName, originDirHandle, pcPick, pick,
                   pcSend, send, store>>

\* ------------------------------------------------------------ environment
\* A file of a source folder is rewritten from outside: its size or its
\* modification time changes.
Rewritten == {<<"A", "a.xlsx">>}

Env_ModifyFile(id, size, mtime) ==
    /\ envCount < MaxEnv
    /\ <<size, mtime>> # <<meta[id].size, meta[id].mtime>>
    /\ meta' = [meta EXCEPT ![id] = [size |-> size, mtime |-> mtime]]
    /\ envCount' = envCount + 1
    /\ outcome' = NoOutcome
    /\ UNCHANGED <<sidecar, dest, files, selected, errorMsg, scanning,
                   pickedFolderName, originDirHandle, pcPick, pick, pcSend,
                   send, pcDiscard, discard, discards, store>>

\* ---------------------------------------------------------- specification
\* The steps of the handlers in flight (the steps that end a scan or save
\* a status follow below).
Awaits ==
    \/ \E err \in PickerErrors : pickDirectory_Rejected(err)
    \/ pickDirectory_Load
    \/ \E dir \in DstDirs : sendFiles_Picked(dir)
    \/ \E err \in PickerErrors : sendFiles_Rejected(err)
    \/ \E perm \in Permissions : sendFiles_Permission(perm)
    \/ \E how \in CopyOutcomes : sendFiles_Copy(how)
    \/ sendFiles_Load
    \/ discardFiles_Load

\* The user picks folder A or folder B as the source folder.
Steps ==
    \/ Awaits
    \/ \E dir \in SrcDirs : pickDirectory_Picked(dir)

\* One user action at a time: a handler is called only while no handler is
\* in flight.
Calls ==
    \/ Idle /\ pickDirectory_Call
    \/ Idle /\ sendFiles_Call
    \/ Idle /\ discardFiles_Call
    \/ Idle /\ \E i \in 1..Len(files), checked \in BOOLEAN :
                   toggleOne(files[i].name, checked)
    \/ Idle /\ selectAll
    \/ Idle /\ clearSelection

\* The end of a scan, the folder yielding its entries in some order.
Entries ==
    /\ pcPick = "entries"
    /\ \E order \in EntryOrders(pick.dir, sidecar) : pickDirectory_Entries(order)

SendSave == \E how \in SaveOutcomes : sendFiles_MarkSave(how)

DiscardSave == \E how \in SaveOutcomes : discardFiles_MarkSave(how)

\* The folders change from outside only while no handler is in flight.
Modify ==
    /\ Idle
    /\ \E id \in Rewritten, size \in Sizes, mtime \in Times :
           Env_ModifyFile(id, size, mtime)

Next ==
    \/ Calls
    \/ Steps
    \/ Entries /\ UNCHANGED scans
    \/ SendSave /\ UNCHANGED scans
    \/ DiscardSave /\ UNCHANGED <<discards, scans>>
    \/ Modify /\ UNCHANGED scans

Spec == Init /\ [][Next]_vars

\* The same program, with discards recording the files (handle, size and
\* modification time) for which a Discard has saved the status, once or
\* twice.
NextTwice ==
    \/ Calls
    \/ Steps
    \/ Entries /\ UNCHANGED scans
    \/ SendSave /\ UNCHANGED scans
    \/ Modify /\ UNCHANGED scans
    \/ /\ DiscardSave
       /\ UNCHANGED scans
       /\ discards' =
              IF outcome'.op = "discard_done"
              THEN discards \cup
                     {<<discard.selected[i].handle,
                        meta[discard.selected[i].handle],
                        IF <<discard.selected[i].handle,
                             meta[discard.selected[i].handle], 1>>
                               \in discards
                        THEN 2 ELSE 1>> :
                          i \in 1..Len(discard.selected)}
              ELSE discards

SpecTwice == Init /\ [][NextTwice]_vars

\* The same program, with scans recording the lists of the last two
\* completed scans; a file rewritten from outside and a Send or Discard
\* that reaches its save make it forget them.
NextRescan ==
    \/ Calls
    \/ Steps
    \/ /\ Entries
       /\ scans' = IF outcome'.op = "scan_ok"
                   THEN [prev |-> scans.last,
                         last |-> [dir |-> outcome'.dir, files |-> files']]
                   ELSE scans
    \/ SendSave /\ scans' = Scans0
    \/ DiscardSave /\ scans' = Scans0 /\ UNCHANGED discards
    \/ Modify /\ scans' = Scans0

SpecRescan == Init /\ [][NextRescan]_vars

\* The same program with folder C, of three .xlsx files, as the source
\* folder and no sidecar in it at first.
InitThree ==
    /\ Init
    /\ sidecar["A"] = Content("absent")

\* c.xlsx of folder C is rewritten from outside, keeping its size.
ModifyThree ==
    /\ Idle
    /\ \E mtime \in Times :
           Env_ModifyFile(<<"C", "c.xlsx">>, meta[<<"C", "c.xlsx">>].size,
                          mtime)

NextThree ==
    \/ Calls
    \/ Awaits
    \/ pickDirectory_Picked("C")
    \/ Entries /\ UNCHANGED scans
    \/ SendSave /\ UNCHANGED scans
    \/ DiscardSave /\ UNCHANGED <<discards, scans>>
    \/ ModifyThree /\ UNCHANGED scans

SpecThree == InitThree /\ [][NextThree]_vars

\* The same program with nothing that keeps a handler from being called
\* while another one is suspended at an await (one call of each handler in
\* flight at most).  While a folder prompt is open the page takes no input.
\* Here the selection is changed only while no handler is in flight, and
\* with the header checkbox; a prompt fails only by being cancelled, and
\* every copy succeeds.
NoPrompt == pcPick # "picker" /\ pcSend # "picker"

CallsConc ==
    \/ NoPrompt /\ pickDirectory_Call
    \/ NoPrompt /\ sendFiles_Call
    \/ NoPrompt /\ discardFiles_Call
    \/ Idle /\ selectAll
    \/ Idle /\ clearSelection

AwaitsConc ==
    \/ \E dir \in SrcDirs : pickDirectory_Picked(dir)
    \/ pickDirectory_Rejected("AbortError")
    \/ pickDirectory_Load
    \/ \E dir \in DstDirs : sendFiles_Picked(dir)
    \/ sendFiles_Rejected("AbortError")
    \/ \E perm \in Permissions : sendFiles_Permission(perm)
    \/ sendFiles_Copy("ok")
    \/ sendFiles_Load
    \/ discardFiles_Load

NextConc ==
    \/ CallsConc
    \/ AwaitsConc
    \/ Entries /\ UNCHANGED scans
    \/ SendSave /\ UNCHANGED scans
    \/ DiscardSave /\ UNCHANGED <<discards, scans>>

SpecConc == InitThree /\ [][NextConc]_vars

\* The status store on its own: saveStatusMapToFolder and
\* loadStatusMapFromFolder called with any status map on folders whose
\* sidecar holds anything.
StoreKeys == {makeStatusKey("a.xlsx", 100, 1), makeStatusKey("B.XLSX", 100, 2)}

\* Record<string, FileStatus>
StatusMaps ==
    {[t |-> "object", m |-> f] :
        f \in UNION {[K -> {"sent", "discarded"}] : K \in SUBSET StoreKeys}}

SidecarContents ==
    {Content(k) : k \in SidecarKinds0}
        \cup {JSONStringify(m) : m \in StatusMaps}

InitStore ==
    /\ meta = [id \in FileIds |-> InitialMeta(id)]
    /\ sidecar \in [Folders -> SidecarContents]
    /\ sidecar["C"] = Content("absent")
    /\ dest = [d \in DstDirs |-> [n \in Names |-> "absent"]]
    /\ envCount = 0
    /\ files = <<>>
    /\ selected = {}
    /\ errorMsg = NoError
    /\ scanning = FALSE
    /\ pickedFolderName = NoDir
    /\ originDirHandle = NoDir
    /\ pcPick = "idle" /\ pick = PickLocals0
    /\ pcSend = "idle" /\ send = SendLocals0
    /\ pcDiscard = "idle" /\ discard = DiscardLocals0
    /\ outcome = NoOutcome
    /\ discards = {}
    /\ store = Store0
    /\ scans = Scans0

\* await this.saveStatusMapToFolder(dir, m)
Store_Save(dir, m, how) ==
    /\ sidecar' = [sidecar EXCEPT ![dir] = saveStatusMapToFolder(@, m, how)]
    /\ store' = [op |-> IF how = "ok" THEN "saved" ELSE "save_failed",
                 dir |-> dir, m |-> m, prior |-> sidecar[dir],
                 result |-> EmptyObject]
    /\ UNCHANGED <<meta, dest, envCount, files, selected, errorMsg, scanning,
                   pickedFolderName, originDirHandle, pcPick, pick, pcSend,
                   send, pcDiscard, discard, outcome, discards, scans>>

\* await this.loadStatusMapFromFolder(dir)
Store_Load(dir) ==
    /\ store' = IF store.op = "saved" /\ store.dir = dir
                THEN [store EXCEPT
                        !.op = "saved_loaded",
                        !.result = loadStatusMapFromFolder(sidecar[dir])]
                ELSE [Store0 EXCEPT
                        !.op = "loaded", !.dir = dir,
                        !.result = loadStatusMapFromFolder(sidecar[dir])]
    /\ UNCHANGED <<meta, sidecar, dest, envCount, files, selected, errorMsg,
                   scanning, pickedFolderName, originDirHandle, pcPick, pick,
                   pcSend, send, pcDiscard, discard, outcome, discards, scans>>

NextStore ==
    \/ \E dir \in SrcDirs, m \in StatusMaps, how \in SaveOutcomes :
           Store_Save(dir, m, how)
    \/ \E dir \in SrcDirs : Store_Load(dir)

SpecStore == InitStore /\ [][NextStore]_vars

\* ----------------------------------------------------------------- claims
\* The identity key of the data model: name, size and modification time
\* joined by "|".
IdentityKey(name, size, mtime) ==
    name \o "|" \o ToString(size) \o "|" \o ToString(mtime)

\* The status the sidecar of a folder gives a key ("none": no status).
StatusIn(side, dir, key) ==
    IF side[dir].kind = "object" /\ \E p \in side[dir].m : p[1] = key
    THEN (CHOOSE p \in side[dir].m : p[1] = key)[2]
    ELSE "none"

Handled(side, dir, key) == StatusIn(side, dir, key) \in {"sent", "discarded"}

Listed(name) == \E i \in 1..Len(files) : files[i].name = name

\* The identity key of the file an entry refers to, as the file is now.
KeyNow(item) ==
    IdentityKey(item.name, meta[item.handle].size, meta[item.handle].mtime)

NamesOf(items) == {items[i].name : i \in 1..Len(items)}

\* C1: a scan that has just completed lists no file whose identity key the
\* folder's sidecar maps to 'sent' or 'discarded'; a file that was handled
\* under another size or modification time than it has now is listed again
\* (unless its present key is handled as well).
C1_HandledFilesAreSkipped ==
    outcome.op = "scan_ok" =>
        \A id \in FileIds : \A s \in Sizes, t \in Times :
            (id[1] = outcome.dir
               /\ Handled(sidecar, id[1], IdentityKey(id[2], s, t)))
            => IF <<s, t>> = <<meta[id].size, meta[id].mtime>>
               THEN ~Listed(id[2])
               ELSE \/ Listed(id[2])
                    \/ Handled(sidecar, id[1],
                               IdentityKey(id[2], meta[id].size,
                                           meta[id].mtime))

\* C1 witness: a scan has completed in a folder with a handled, unchanged
\* file (skipped) and a handled file rewritten since (listed again).
C1_Witness ==
    /\ outcome.op = "scan_ok"
    /\ \E id \in FileIds :
          /\ id[1] = outcome.dir
          /\ Handled(sidecar, id[1],
                     IdentityKey(id[2], meta[id].size, meta[id].mtime))
          /\ ~Listed(id[2])
    /\ \E id \in FileIds : \E s \in Sizes, t \in Times :
          /\ id[1] = outcome.dir
          /\ <<s, t>> # <<meta[id].size, meta[id].mtime>>
          /\ Handled(sidecar, id[1], IdentityKey(id[2], s, t))
          /\ Listed(id[2])

\* A Send that has reached the copy loop and has returned.
SendRanCopies == outcome.op \in {"send_done", "send_save_failed", "send_threw"}

\* C2: when a Send that reached the copy loop has returned (its save not
\* having failed), the sidecar of the source folder maps the identity key
\* of every selected entry to 'sent', whatever the copies did.
C2_AttemptedEntriesAreSent ==
    outcome.op \in {"send_done", "send_threw"} =>
        \A i \in 1..Len(outcome.selected) :
            StatusIn(sidecar, outcome.selected[i].handle[1],
                     KeyNow(outcome.selected[i])) = "sent"

\* C3: when the copy loop has run, every selected entry has been attempted
\* exactly once, in order, whatever happened to the others; ok + fail is
\* the number of selected entries and ok the number of copies that
\* succeeded.
C3_EveryEntryAttemptedOnce ==
    SendRanCopies =>
        /\ Len(outcome.log) = Len(outcome.selected)
        /\ \A i \in 1..Len(outcome.log) :
              outcome.log[i][1] = outcome.selected[i].name
        /\ outcome.ok + outcome.fail = Len(outcome.selected)
        /\ outcome.ok =
              Cardinality({i \in 1..Len(outcome.log) : outcome.log[i][2] = "ok"})

\* C3 witness: a Send whose first copy failed and whose second succeeded.
C3_Witness ==
    /\ outcome.op = "send_done"
    /\ Len(outcome.log) = 2
    /\ outcome.log[1][2] # "ok"
    /\ outcome.log[2][2] = "ok"
    /\ outcome.ok = 1 /\ outcome.fail = 1

\* C4: a Send whose destination permission is denied never reaches the
\* copy loop and returns having attempted no copy, with the destination,
\* the sidecars, the file list and the selection as they were at the call.
C4_DeniedSendChangesNothing ==
    /\ pcSend \in {"copy", "load", "mark"} => send.perm # "denied"
    /\ outcome.perm = "denied" =>
          /\ outcome.op = "send_denied"
          /\ outcome.log = <<>>
          /\ dest = outcome.pre.dest
          /\ sidecar = outcome.pre.sidecar
          /\ files = outcome.pre.files
          /\ selected = outcome.pre.selected

\* C4 witness: a Send of a non-empty selection has returned on a denied
\* permission.
C4_Witness ==
    /\ outcome.op = "send_denied"
    /\ outcome.perm = "denied"
    /\ Len(outcome.selected) >= 1
    /\ selected # {}

\* C5: after a scan whose folder prompt was aborted, the file list and the
\* selection are those of before the call and no error message is set.
C5_AbortedScanKeepsState ==
    outcome.op = "scan_abort" =>
        /\ files = outcome.pre.files
        /\ selected = outcome.pre.selected
        /\ errorMsg = NoError

\* C6: after a Send whose destination prompt was cancelled, no copy was
\* attempted and the destination, the sidecars, the file list, the
\* selection and the error message are as they were at the call.
C6_CancelledSendIsNoOp ==
    outcome.op = "send_cancelled" =>
        /\ outcome.log = <<>>
        /\ dest = outcome.pre.dest
        /\ sidecar = outcome.pre.sidecar
        /\ files = outcome.pre.files
        /\ selected = outcome.pre.selected
        /\ errorMsg = outcome.pre.errorMsg

\* C6 witness: a Send of a non-empty selection has been cancelled at the
\* destination prompt.
C6_Witness ==
    /\ outcome.op = "send_cancelled"
    /\ Len(outcome.selected) >= 1
    /\ selected # {}
    /\ files # <<>>

\* What sendFiles and discardFiles return to their caller.
ReturnValue(op) == "undefined"

\* C7: a Send or Discard whose save failed leaves its caller with a return
\* value or an error message other than those a successful one leaves
\* (which returns undefined and leaves the error message as it was).
C7_FailedSaveIsReported ==
    outcome.op \in {"send_save_failed", "discard_save_failed"} =>
        <<ReturnValue(outcome.op), errorMsg>>
            # <<ReturnValue("send_done"), outcome.pre.errorMsg>>

\* C8: whatever the sidecar holds that is no status object, the loaded
\* status map behaves as an empty one (reading a key gives no status and
\* does not throw), and the scan ends without error, listing every .xlsx
\* file of the folder.
C8_BadSidecarScansAsEmpty ==
    /\ (pcPick = "entries" /\ sidecar[pick.dir].kind # "object") =>
          /\ ~ReadThrows(pick.statusMap)
          /\ \A k \in AllKeys : Get(pick.statusMap, k) = "undefined"
    /\ (outcome.op \in {"scan_ok", "scan_threw"}
          /\ sidecar[outcome.dir].kind # "object") =>
          /\ outcome.op = "scan_ok"
          /\ errorMsg = NoError
          /\ \A id \in FileIds : id[1] = outcome.dir => Listed(id[2])

\* The names a scan of the folder lists, the folder being as it is now
\* and yielding its entries in the given order.
RescanNames(dir, order) ==
    LET r == ScanLoop(dir, loadStatusMapFromFolder(sidecar[dir]), order,
                      meta, 1, <<>>)
    IN  IF r.threw THEN {"(scan error)"} ELSE NamesOf(r.results)

\* C9: after a Discard whose save succeeded, the sidecar of the source
\* folder maps the identity key of every selected entry to 'discarded',
\* the destination is untouched, the status was saved exactly once, and a
\* scan of the folder as it is lists none of the discarded entries.
C9_DiscardedEntriesAreGone ==
    outcome.op = "discard_done" =>
        /\ \A i \in 1..Len(outcome.selected) :
              StatusIn(sidecar, outcome.selected[i].handle[1],
                       KeyNow(outcome.selected[i])) = "discarded"
        /\ dest = outcome.pre.dest
        /\ outcome.saves = 1
        /\ \A i \in 1..Len(outcome.selected) :
              \A order \in EntryOrders(outcome.selected[i].handle[1], sidecar) :
                  outcome.selected[i].name
                      \notin RescanNames(outcome.selected[i].handle[1], order)

\* C10: when the second Discard of a file (same size and modification
\* time) has saved, the sidecar maps the file's identity key to
\* 'discarded', gives every other key the status it had before this
\* Discard, and no error message is set.
C10_DiscardTwice ==
    outcome.op = "discard_done" =>
        \A i \in 1..Len(outcome.selected) :
            LET item == outcome.selected[i]
                dir  == item.handle[1]
            IN  <<item.handle, meta[item.handle], 2>> \in discards =>
                  /\ StatusIn(sidecar, dir, KeyNow(item)) = "discarded"
                  /\ \A k \in AllKeys :
                        (\A j \in 1..Len(outcome.selected) :
                            k # KeyNow(outcome.selected[j]))
                        => StatusIn(sidecar, dir, k)
                             = StatusIn(outcome.pre.sidecar, dir, k)
                  /\ errorMsg = outcome.pre.errorMsg

\* C11: a load that follows a successful save of a status map m into the
\* same folder returns a map equal to m, whatever the sidecar held before
\* the save (which leaves a sidecar file in the folder).
C11_SaveThenLoadRoundTrips ==
    store.op = "saved_loaded" =>
        /\ store.result.t = "object"
        /\ DOMAIN store.result.m = DOMAIN store.m.m
        /\ \A k \in DOMAIN store.m.m : store.result.m[k] = store.m.m[k]
        /\ sidecar[store.dir].kind # "absent"

\* C11 witness: a non-empty map has been saved over a sidecar that held
\* another status map, and loaded back.
C11_Witness ==
    /\ store.op = "saved_loaded"
    /\ store.m.m # EmptyMap
    /\ store.prior.kind = "object"
    /\ \E p \in store.prior.m : p[1] \notin DOMAIN store.m.m
    /\ store.result = store.m

\* C12: the list a scan has just produced is ordered by modification time,
\* most recent first: of two entries, the one listed first is not the
\* older one.
C12_ScanListIsSortedByDate ==
    outcome.op = "scan_ok" =>
        \A i \in 1..Len(files), j \in 1..Len(files) :
            i < j => files[i].lastModified >= files[j].lastModified

\* C12 witness: a scan has listed three entries of different modification
\* times.
C12_Witness ==
    /\ outcome.op = "scan_ok"
    /\ Len(files) = 3
    /\ files[1].lastModified > files[2].lastModified
    /\ files[2].lastModified > files[3].lastModified

\* Two scans of the same folder have completed one after the other, with
\* no change of the folders and no Send or Discard between them.
ConsecutiveScans ==
    /\ outcome.op = "scan_ok"
    /\ scans.last.dir # NoDir
    /\ scans.prev.dir = scans.last.dir

\* C13: two consecutive scans of an unchanged folder produce the same
\* list: the same entries in the same order.
C13_ConsecutiveScansAgree ==
    ConsecutiveScans => scans.prev.files = scans.last.files

\* C13, amended: two consecutive scans of an unchanged folder produce the
\* same entries, and the same modification time at every position of the
\* list: the lists differ at most in the order of entries of equal
\* modification time.
C13_ConsecutiveScansAgreeUpToTies ==
    ConsecutiveScans =>
        /\ Len(scans.prev.files) = Len(scans.last.files)
        /\ {scans.prev.files[i] : i \in 1..Len(scans.prev.files)}
              = {scans.last.files[i] : i \in 1..Len(scans.last.files)}
        /\ \A i \in 1..Len(scans.last.files) :
              scans.prev.files[i].lastModified
                  = scans.last.files[i].lastModified

\* C13 witness: two consecutive scans have listed the same two entries.
C13_Witness ==
    /\ ConsecutiveScans
    /\ Len(scans.last.files) = 2
    /\ Len(scans.prev.files) = 2

\* A Send or a Discard has returned after saving the status.
StatusPersisted ==
    /\ outcome.op \in {"send_done", "discard_done"}
    /\ outcome.saves = 1

\* C14: after a Send or Discard that has saved the status, the file list
\* is the list of before the call without the selected entries: every
\* other entry is there, unchanged, at the place it had among the others,
\* and the selection is empty.
C14_ProcessedEntriesLeaveTheList ==
    StatusPersisted =>
        LET prior == outcome.pre.files
            kept  == {i \in 1..Len(prior) :
                        prior[i].name \notin NamesOf(outcome.selected)}
        IN  /\ Len(files) = Cardinality(kept)
            /\ \A i \in kept :
                  files[Cardinality({j \in kept : j <= i})] = prior[i]
            /\ selected = {}

\* C14 witness: one entry of a list of three has been sent or discarded,
\* and the status saved.
C14_Witness ==
    /\ StatusPersisted
    /\ Len(outcome.pre.files) = 3
    /\ Len(outcome.selected) = 1
    /\ Len(files) = 2

\* The names that end with ".xlsx", whatever the case of the letters.
XlsxNamed == {"a.xlsx", "B.XLSX", "c.xlsx", "s.xlsx"}

\* C15: the list a scan has just produced holds, once each, exactly the
\* direct entries of the folder that are files, are named *.xlsx in any
\* case and whose identity key the folder's sidecar does not map to 'sent'
\* or 'discarded', each with the size and time of its file; no directory,
\* no other extension and not the sidecar; a file whose metadata cannot be
\* read is listed all the same, without lastSavedBy.
C15_ScanListsUnhandledXlsxFiles ==
    outcome.op = "scan_ok" =>
        /\ NamesOf(files) =
              {n \in Names :
                 /\ Kind(outcome.dir, n) = "file"
                 /\ n \in XlsxNamed
                 /\ ~Handled(sidecar, outcome.dir,
                             IdentityKey(n, meta[<<outcome.dir, n>>].size,
                                         meta[<<outcome.dir, n>>].mtime))}
        /\ Len(files) = Cardinality(NamesOf(files))
        /\ ~Listed(STATUS_FILENAME)
        /\ \A i \in 1..Len(files) :
              /\ files[i].handle = <<outcome.dir, files[i].name>>
              /\ files[i].size = meta[files[i].handle].size
              /\ files[i].lastModified = meta[files[i].handle].mtime
              /\ Zip(outcome.dir, files[i].name) # "author"
                    => files[i].lastSavedBy = "undefined"

\* C15 witness: a scan of folder A (two .xlsx files, a text file, a
\* directory named s.xlsx and a sidecar) has left out the handled a.xlsx
\* and listed B.XLSX, whose content is no zip archive.
C15_Witness ==
    /\ outcome.op = "scan_ok"
    /\ outcome.dir = "A"
    /\ sidecar["A"].kind = "object"
    /\ ~Listed("a.xlsx")
    /\ \E i \in 1..Len(files) :
          files[i].name = "B.XLSX" /\ files[i].lastSavedBy = "undefined"

\* The handlers that are between their call and their return.
InFlight ==
    {h \in {"pickDirectory", "sendFiles", "discardFiles"} :
        \/ h = "pickDirectory" /\ pcPick # "idle"
        \/ h = "sendFiles" /\ pcSend # "idle"
        \/ h = "discardFiles" /\ pcDiscard # "idle"}

\* C16: at most one of pickDirectory, sendFiles and discardFiles is in
\* flight: while one is suspended at an await, no other is called (a call
\* reads or resets the file list and the selection at once).
C16_OneHandlerInFlight == Cardinality(InFlight) <= 1

\* A Send or a Discard has returned after loading the status map (it has
\* saved it, or failed to).
StatusTouched ==
    outcome.op \in {"send_done", "send_save_failed", "send_threw",
                    "discard_done", "discard_save_failed", "discard_threw"}

\* C17: a Send or Discard leaves the status of every other file as it
\* was: a key to which a sidecar gave a status at the call, and which is
\* not the key of a selected entry, has the same status in that sidecar
\* when the handler returns.
C17_OtherEntriesAreKept ==
    StatusTouched =>
        \A dir \in Folders : \A k \in AllKeys :
            (/\ StatusIn(outcome.pre.sidecar, dir, k) # "none"
             /\ \A i \in 1..Len(outcome.selected) :
                    k # KeyNow(outcome.selected[i]))
            => StatusIn(sidecar, dir, k) = StatusIn(outcome.pre.sidecar, dir, k)

\* C17 witness: a Send or Discard has saved the status of an entry into a
\* sidecar that already gave a status to another key, and still does.
C17_Witness ==
    /\ outcome.op \in {"send_done", "discard_done"}
    /\ outcome.saves = 1
    /\ \E k \in AllKeys :
          /\ StatusIn(outcome.pre.sidecar, outcome.dir, k) # "none"
          /\ \A i \in 1..Len(outcome.selected) :
                 k # KeyNow(outcome.selected[i])
          /\ StatusIn(sidecar, outcome.dir, k) # "none"
    /\ \E i \in 1..Len(outcome.selected) :
          StatusIn(sidecar, outcome.dir, KeyNow(outcome.selected[i])) # "none"

\* C18: a Send or Discard that has saved the status has saved it into the
\* sidecar of the folder its entries were scanned from: the folder
\* originDirHandle referred to at the save is the folder of every entry
\* marked, however pickDirectory was interleaved with it.
C18_StatusSavedInScannedFolder ==
    (outcome.op \in {"send_done", "discard_done"} /\ outcome.saves = 1) =>
        \A i \in 1..Len(outcome.selected) :
            outcome.selected[i].handle[1] = outcome.dir

\* C19: toggleOne being called with names of listed entries only, every
\* selected name is the name of an entry of the file list, in every state;
\* and the selection is empty right after a completed scan, Send or
\* Discard.
C19_SelectionWithinList ==
    /\ \A name \in selected : Listed(name)
    /\ outcome.op \in {"scan_ok", "send_done", "discard_done"} => selected = {}

\* C19 witness: a Send of one of two listed entries has failed to save the
\* status and has left the selection as it was.
C19_Witness ==
    /\ outcome.op = "send_save_failed"
    /\ Len(files) = 2
    /\ Cardinality(selected) = 1
    /\ \A name \in selected : Listed(name)

====
